---------------------------- MODULE Spec2Model ----------------------------
(***************************************************************************)
(* StyleMix Studio: the App component's view state (src/types.ts) and the  *)
(* four calls of the gemini service (src/components/FileUpload.tsx).       *)
(*                                                                         *)
(* One step of the model is one synchronous run of code between two        *)
(* awaits: an event handler up to its first await, or the continuation of  *)
(* an async handler after a promise settles.  React applies the setState   *)
(* calls of such a run together, so the state the view renders (and the    *)
(* closures the next event handler captures) is the state after the step.  *)
(* An async handler keeps the values its closure captured when it was      *)
(* clicked; they live in its record in `inflight`.                         *)
(***************************************************************************)
EXTENDS Naturals, Sequences, FiniteSets, TLC

VARIABLES
    activeTab,          \* useState<AppTab>('tryon')
    itemImages,         \* useState<UploadedFile[]>([])
    userImage,          \* useState<UploadedFile | null>(null): <<>> or <<file>>
    sceneDescription,   \* useState<string>('')
    useThinkingMode,    \* useState<boolean>(false)
    generatePrompt,     \* useState<string>('')
    aspectRatio,        \* useState<AspectRatio>('1:1')
    editPrompt,         \* useState<string>('')
    generatedImage,     \* useState<string | null>(null)
    analysisResult,     \* useState<string>('')
    isLoading,          \* useState<boolean>(false)
    error,              \* useState<string | null>(null)
    now,                \* Date.now()
    objectUrls,         \* number of URL.createObjectURL calls so far
    nextOp,             \* number of async handler runs started so far
    inflight            \* the async handler runs that have not finished

view == <<activeTab, itemImages, userImage, sceneDescription, useThinkingMode,
          generatePrompt, aspectRatio, editPrompt>>
shared == <<generatedImage, analysisResult, isLoading, error>>
vars == <<activeTab, itemImages, userImage, sceneDescription, useThinkingMode,
          generatePrompt, aspectRatio, editPrompt, generatedImage,
          analysisResult, isLoading, error, now, objectUrls, nextOp, inflight>>

---------------------------------------------------------------------------
(* Bounds of the exploration *)

\* async handler runs (accepted submits) in one behaviour
MaxOps == 2
\* files uploaded (object URLs created) in one behaviour of the session
MaxUploads == 1
\* files uploaded (object URLs created) in one behaviour of the try-on tab
MaxIntake == 2
\* largest value of the millisecond clock
MaxClock == 1

---------------------------------------------------------------------------
(* Values *)

Null == "null"

AppTab == {"tryon", "generate", "edit"}
AspectRatio == {"1:1", "3:4", "4:3", "9:16", "16:9"}

\* what the user types or picks
Scenes == {"", "sunset park"}
Prompts == {"", "astronaut on Mars"}
EditPrompts == {"", "add a retro filter"}
RatioChoices == {"1:1", "16:9"}

\* local files: one the FileReader can read and one it cannot
Dress == [name |-> "dress.png", type |-> "image/png", bytes |-> "RFJFU1M=", readable |-> TRUE]
Shoes == [name |-> "shoes.png", type |-> "image/png", bytes |-> "U0hPRVM=", readable |-> FALSE]
Files == {Dress, Shoes}

\* messages of the handlers and of the service
TryOnRequiredMsg == "Please upload at least one item and describe the scene."
GenerateRequiredMsg == "Please enter a prompt to generate an image."
EditRequiredMsg == "Please generate an image first and enter an edit prompt."
NoImageMsg == "No image was generated."
EditFailedMsg == "Could not edit the image."
GenerationFailedMsg == "Image generation failed."
UnknownErrorMsg == "An unknown error occurred."
\* the message of an Error the SDK rejects with (network, quota, ...)
TransportMsg == "Failed to fetch"

\* JavaScript truthiness of a string | null
Truthy(s) == s # Null /\ s # ""

---------------------------------------------------------------------------
(* The gemini service: request construction *)

NoRequest == [api |-> "none", model |-> "", text |-> <<>>, ratio |-> "", parts |-> <<>>]

\* FileReader.readAsDataURL: "data:<type>;base64,<bytes>" split at the comma,
\* or null when the file cannot be read
ReadAsDataURL(file) ==
    IF file.readable THEN <<"data:" \o file.type \o ";base64", file.bytes>> ELSE <<>>

fileToGenerativePart(file) ==
    LET result == ReadAsDataURL(file)
    IN  [data |-> IF result # <<>> THEN result[2] ELSE "", mimeType |-> file.type]

base64ToGenerativePart(base64Data, mimeType) ==
    [data |-> base64Data, mimeType |-> mimeType]

\* the generateContent call of generateLook: the text part first, then the
\* user photo if there is one, then the items in order
GenerateLookRequest(files, user, scene) ==
    LET itemImageParts == [i \in 1..Len(files) |-> fileToGenerativePart(files[i])]
        userParts == IF user # <<>> THEN <<fileToGenerativePart(user[1])>> ELSE <<>>
        textPrompt == IF user # <<>> THEN <<"scene", scene, "user photo">>
                                     ELSE <<"scene", scene, "AI model">>
    IN  [api |-> "generateContent", model |-> "gemini-2.5-flash-image",
         text |-> textPrompt, ratio |-> "", parts |-> userParts \o itemImageParts]

AnalyzeRequest(imageBase64, scene) ==
    [api |-> "generateContent", model |-> "gemini-2.5-pro",
     text |-> <<"stylist", scene>>, ratio |-> "",
     parts |-> <<base64ToGenerativePart(imageBase64, "image/jpeg")>>]

EditRequest(imageBase64, prompt) ==
    [api |-> "generateContent", model |-> "gemini-2.5-flash-image",
     text |-> <<prompt>>, ratio |-> "",
     parts |-> <<base64ToGenerativePart(imageBase64, "image/jpeg")>>]

TextToImageRequest(prompt, ratio) ==
    [api |-> "generateImages", model |-> "imagen-4.0-generate-001",
     text |-> <<prompt>>, ratio |-> ratio, parts |-> <<>>]

---------------------------------------------------------------------------
(* The upstream service: what a call can answer, and what the service
   functions make of the answer *)

\* the image bytes the upstream produces for the image call of handler run
\* `id` of the given kind: opaque, and different for every call
ImageOf(kind, id) == kind \o "#" \o ToString(id)
\* the text the analysis model answers for an image
AnalysisOf(imageBase64) == "analysis of " \o imageBase64

NoError == [isError |-> FALSE, message |-> ""]
\* new Error(message)
Error(message) == [isError |-> TRUE, message |-> message]
\* what a rejected SDK call throws: an Error with a message, or something else
Rejections == {Error(TransportMsg), [isError |-> FALSE, message |-> "rejected"]}

TextPart == [hasInlineData |-> FALSE, data |-> ""]
ImagePart(data) == [hasInlineData |-> TRUE, data |-> data]

\* ai.models.generateContent with responseModalities [IMAGE]
ImageResponses(kind, id) ==
    {[rejected |-> FALSE, e |-> NoError, parts |-> <<TextPart, ImagePart(ImageOf(kind, id))>>],
     [rejected |-> FALSE, e |-> NoError, parts |-> <<TextPart>>]}
    \cup {[rejected |-> TRUE, e |-> e, parts |-> <<>>] : e \in Rejections}

\* ai.models.generateContent of the analysis: response.text
TextResponses(imageBase64) ==
    {[rejected |-> FALSE, e |-> NoError, text |-> AnalysisOf(imageBase64)]}
    \cup {[rejected |-> TRUE, e |-> e, text |-> ""] : e \in Rejections}

\* ai.models.generateImages: generatedImages[0].image.imageBytes
ImagenResponses(kind, id) ==
    {[rejected |-> FALSE, e |-> NoError, imageBytes |-> ImageOf(kind, id)],
     [rejected |-> FALSE, e |-> NoError, imageBytes |-> ""]}
    \cup {[rejected |-> TRUE, e |-> e, imageBytes |-> ""] : e \in Rejections}

\* how an awaited service call settles
Return(value) == [ok |-> TRUE, value |-> value, e |-> NoError]
Throw(e) == [ok |-> FALSE, value |-> "", e |-> e]

\* for (const part of parts) if (part.inlineData) return part.inlineData.data;
\* throw new Error(message)
RECURSIVE FirstInlineData(_, _)
FirstInlineData(parts, message) ==
    IF parts = <<>> THEN Throw(Error(message))
    ELSE IF Head(parts).hasInlineData THEN Return(Head(parts).data)
    ELSE FirstInlineData(Tail(parts), message)

generateLook(response) ==
    IF response.rejected THEN Throw(response.e)
    ELSE FirstInlineData(response.parts, NoImageMsg)

editImage(response) ==
    IF response.rejected THEN Throw(response.e)
    ELSE FirstInlineData(response.parts, EditFailedMsg)

analyzeLookWithThinking(response) ==
    IF response.rejected THEN Throw(response.e) ELSE Return(response.text)

generateImageFromText(response) ==
    IF response.rejected THEN Throw(response.e)
    ELSE IF ~Truthy(response.imageBytes) THEN Throw(Error(GenerationFailedMsg))
    ELSE Return(response.imageBytes)

\* e instanceof Error ? e.message : 'An unknown error occurred.'
ErrorMessage(e) == IF e.isError THEN e.message ELSE UnknownErrorMsg

---------------------------------------------------------------------------
(* The App component: initial state and the input controls *)

Init ==
    /\ activeTab = "tryon"
    /\ itemImages = <<>>
    /\ userImage = <<>>
    /\ sceneDescription = ""
    /\ useThinkingMode = FALSE
    /\ generatePrompt = ""
    /\ aspectRatio = "1:1"
    /\ editPrompt = ""
    /\ generatedImage = Null
    /\ analysisResult = ""
    /\ isLoading = FALSE
    /\ error = Null
    /\ now = 0
    /\ objectUrls = 0
    /\ nextOp = 0
    /\ inflight = {}

\* the clock advances between events
Tick ==
    /\ now < MaxClock
    /\ now' = now + 1
    /\ UNCHANGED <<view, shared, objectUrls, nextOp, inflight>>

\* one uploaded file: id `${file.name}-${Date.now()}`, time being what
\* Date.now() returns for it, and a fresh object URL
UploadedFile(file, time, k) ==
    [id |-> <<file.name, time>>, file |-> file, preview |-> objectUrls + k]

\* what Date.now() can return to n reads in a row within one call: the first
\* reads the clock as it stands, and the clock never runs backwards
ClockReads(n) ==
    {reads \in [1..n -> now..MaxClock] :
        /\ reads[1] = now
        /\ \A i \in 1..(n - 1) : reads[i] <= reads[i + 1]}

\* what a file input or a drop hands to onFilesChange: a non-empty list
FileLists == UNION {[1..n -> Files] : n \in 1..2}

SetActiveTab(tab) ==
    /\ activeTab' = tab
    /\ UNCHANGED <<itemImages, userImage, sceneDescription, useThinkingMode,
                   generatePrompt, aspectRatio, editPrompt, shared, now,
                   objectUrls, nextOp, inflight>>

\* files.map reads Date.now() once per file: reads[i] is the value file i gets
handleItemFiles(files, reads) ==
    /\ activeTab = "tryon"
    /\ itemImages' = itemImages \o
         [i \in 1..Len(files) |-> UploadedFile(files[i], reads[i], i)]
    /\ objectUrls' = objectUrls + Len(files)
    /\ now' = reads[Len(files)]
    /\ UNCHANGED <<activeTab, userImage, sceneDescription, useThinkingMode,
                   generatePrompt, aspectRatio, editPrompt, shared,
                   nextOp, inflight>>

handleUserFile(files) ==
    /\ activeTab = "tryon"
    /\ Len(files) > 0
    /\ userImage' = <<UploadedFile(files[1], now, 1)>>
    /\ objectUrls' = objectUrls + 1
    /\ UNCHANGED <<activeTab, itemImages, sceneDescription, useThinkingMode,
                   generatePrompt, aspectRatio, editPrompt, shared, now,
                   nextOp, inflight>>

\* prev.filter(item => item.id !== id)
removeItem(id) ==
    /\ activeTab = "tryon"
    /\ itemImages' = SelectSeq(itemImages, LAMBDA item : item.id # id)
    /\ UNCHANGED <<activeTab, userImage, sceneDescription, useThinkingMode,
                   generatePrompt, aspectRatio, editPrompt, shared, now,
                   objectUrls, nextOp, inflight>>

setSceneDescription(value) ==
    /\ activeTab = "tryon"
    /\ sceneDescription' = value
    /\ UNCHANGED <<activeTab, itemImages, userImage, useThinkingMode,
                   generatePrompt, aspectRatio, editPrompt, shared, now,
                   objectUrls, nextOp, inflight>>

setUseThinkingMode(checked) ==
    /\ activeTab = "tryon"
    /\ useThinkingMode' = checked
    /\ UNCHANGED <<activeTab, itemImages, userImage, sceneDescription,
                   generatePrompt, aspectRatio, editPrompt, shared, now,
                   objectUrls, nextOp, inflight>>

setGeneratePrompt(value) ==
    /\ activeTab = "generate"
    /\ generatePrompt' = value
    /\ UNCHANGED <<activeTab, itemImages, userImage, sceneDescription,
                   useThinkingMode, aspectRatio, editPrompt, shared, now,
                   objectUrls, nextOp, inflight>>

setAspectRatio(value) ==
    /\ activeTab = "generate"
    /\ aspectRatio' = value
    /\ UNCHANGED <<activeTab, itemImages, userImage, sceneDescription,
                   useThinkingMode, generatePrompt, editPrompt, shared, now,
                   objectUrls, nextOp, inflight>>

\* the edit controls are rendered when activeTab === 'edit' && generatedImage
EditControlsShown == activeTab = "edit" /\ Truthy(generatedImage)

setEditPrompt(value) ==
    /\ EditControlsShown
    /\ editPrompt' = value
    /\ UNCHANGED <<activeTab, itemImages, userImage, sceneDescription,
                   useThinkingMode, generatePrompt, aspectRatio, shared, now,
                   objectUrls, nextOp, inflight>>

---------------------------------------------------------------------------
(* The submit handlers, up to their first await *)

\* the record of an async handler run: what its closure captured, where it
\* is, the request it is waiting on and the upstream calls it has issued
Op(kind, pc, think, scene, files, user, request, calls) ==
    [id |-> nextOp + 1, kind |-> kind, pc |-> pc, think |-> think,
     scene |-> scene, files |-> files, user |-> user, request |-> request,
     calls |-> calls]

\* "Generate My Look": rendered on the try-on tab, disabled={isLoading}
GenerateLookClickable == activeTab = "tryon" /\ ~isLoading
\* "Generate Image": rendered on the generate tab
GenerateImageClickable == activeTab = "generate"
\* "Apply Edit": rendered with the edit controls, disabled={isLoading}
ApplyEditClickable == EditControlsShown /\ ~isLoading

\* a guard that forgets the scene
TryOnInputMissing_ItemsOnly == Len(itemImages) = 0
\* a guard that forgets the edit prompt
EditInputMissing_ImageOnly == ~Truthy(generatedImage)

\* itemImages.length === 0 || !sceneDescription
TryOnInputMissing == Len(itemImages) = 0 \/ ~Truthy(sceneDescription)
\* !generatePrompt
GenerateInputMissing == ~Truthy(generatePrompt)
\* !generatedImage || !editPrompt
EditInputMissing == ~Truthy(generatedImage) \/ ~Truthy(editPrompt)

handleGenerateLook ==
    /\ GenerateLookClickable
    /\ IF TryOnInputMissing
       THEN /\ error' = TryOnRequiredMsg
            /\ UNCHANGED <<generatedImage, analysisResult, isLoading, nextOp, inflight>>
       ELSE /\ nextOp < MaxOps
            /\ isLoading' = TRUE
            /\ error' = Null
            /\ generatedImage' = Null
            /\ analysisResult' = ""
            /\ nextOp' = nextOp + 1
            /\ inflight' = inflight \cup
                 {Op("tryon", "encode", useThinkingMode, sceneDescription,
                     [i \in 1..Len(itemImages) |-> itemImages[i].file],
                     IF userImage # <<>> THEN <<userImage[1].file>> ELSE <<>>,
                     NoRequest, <<>>)}
    /\ UNCHANGED <<view, now, objectUrls>>

handleGenerateImage ==
    /\ GenerateImageClickable
    /\ IF GenerateInputMissing
       THEN /\ error' = GenerateRequiredMsg
            /\ UNCHANGED <<generatedImage, analysisResult, isLoading, nextOp, inflight>>
       ELSE /\ nextOp < MaxOps
            /\ isLoading' = TRUE
            /\ error' = Null
            /\ generatedImage' = Null
            /\ analysisResult' = ""
            /\ nextOp' = nextOp + 1
            /\ inflight' = inflight \cup
                 {Op("generate", "image", FALSE, "", <<>>, <<>>,
                     TextToImageRequest(generatePrompt, aspectRatio),
                     <<"generateImages">>)}
    /\ UNCHANGED <<view, now, objectUrls>>

handleEditImage ==
    /\ ApplyEditClickable
    /\ IF EditInputMissing
       THEN /\ error' = EditRequiredMsg
            /\ UNCHANGED <<generatedImage, analysisResult, isLoading, nextOp, inflight>>
       ELSE /\ nextOp < MaxOps
            /\ isLoading' = TRUE
            /\ error' = Null
            /\ nextOp' = nextOp + 1
            /\ inflight' = inflight \cup
                 {Op("edit", "image", FALSE, "", <<>>, <<>>,
                     EditRequest(generatedImage, editPrompt),
                     <<"generateContent">>)}
            /\ UNCHANGED <<generatedImage, analysisResult>>
    /\ UNCHANGED <<view, now, objectUrls>>

---------------------------------------------------------------------------
(* The submit handlers, after their awaits *)

\* catch (e) { setError(e instanceof Error ? e.message : ...) }
Catch(e) == error' = ErrorMessage(e)
\* finally { setIsLoading(false) }: the handler run ends
Finally(o) == isLoading' = FALSE /\ inflight' = inflight \ {o}

\* generateLook after the items are read, when there is a user photo: the
\* prompt text is built, the read of the user photo starts and is awaited
generateLookReadUser(o) ==
    /\ o.kind = "tryon" /\ o.pc = "encode"
    /\ o.user # <<>>
    /\ inflight' = (inflight \ {o}) \cup {[o EXCEPT !.pc = "readUser"]}
    /\ UNCHANGED <<view, shared, now, objectUrls, nextOp>>

\* generateLook after the last file is read (the user photo if there is one,
\* the items otherwise): the generateContent call goes out
generateLookSend(o) ==
    /\ o.kind = "tryon"
    /\ o.pc = (IF o.user = <<>> THEN "encode" ELSE "readUser")
    /\ inflight' = (inflight \ {o}) \cup
         {[o EXCEPT !.pc = "image",
                    !.request = GenerateLookRequest(o.files, o.user, o.scene),
                    !.calls = Append(o.calls, "generateContent")]}
    /\ UNCHANGED <<view, shared, now, objectUrls, nextOp>>

\* handleGenerateLook after await generateLook(...)
generateLookSettles(o, response) ==
    /\ o.kind = "tryon" /\ o.pc = "image"
    /\ LET imageBase64 == generateLook(response)
       IN  IF imageBase64.ok
           THEN /\ generatedImage' = imageBase64.value
                /\ IF o.think
                   THEN /\ inflight' = (inflight \ {o}) \cup
                             {[o EXCEPT !.pc = "analysis",
                                        !.request = AnalyzeRequest(imageBase64.value, o.scene),
                                        !.calls = Append(o.calls, "generateContent:analysis")]}
                        /\ UNCHANGED isLoading
                   ELSE Finally(o)
                /\ UNCHANGED error
           ELSE /\ Catch(imageBase64.e)
                /\ Finally(o)
                /\ UNCHANGED generatedImage
    /\ UNCHANGED <<view, analysisResult, now, objectUrls, nextOp>>

\* handleGenerateLook after await analyzeLookWithThinking(...)
analysisSettles(o, response) ==
    /\ o.kind = "tryon" /\ o.pc = "analysis"
    /\ LET analysis == analyzeLookWithThinking(response)
       IN  IF analysis.ok
           THEN analysisResult' = analysis.value /\ UNCHANGED error
           ELSE Catch(analysis.e) /\ UNCHANGED analysisResult
    /\ Finally(o)
    /\ UNCHANGED <<view, generatedImage, now, objectUrls, nextOp>>

\* handleGenerateImage after await generateImageFromText(...)
generateImageSettles(o, response) ==
    /\ o.kind = "generate" /\ o.pc = "image"
    /\ LET imageBase64 == generateImageFromText(response)
       IN  IF imageBase64.ok
           THEN generatedImage' = imageBase64.value /\ UNCHANGED error
           ELSE Catch(imageBase64.e) /\ UNCHANGED generatedImage
    /\ Finally(o)
    /\ UNCHANGED <<view, analysisResult, now, objectUrls, nextOp>>

\* handleEditImage after await editImage(...)
editImageSettles(o, response) ==
    /\ o.kind = "edit" /\ o.pc = "image"
    /\ LET imageBase64 == editImage(response)
       IN  IF imageBase64.ok
           THEN /\ generatedImage' = imageBase64.value
                /\ editPrompt' = ""
                /\ UNCHANGED error
           ELSE /\ Catch(imageBase64.e)
                /\ UNCHANGED <<generatedImage, editPrompt>>
    /\ Finally(o)
    /\ UNCHANGED <<activeTab, itemImages, userImage, sceneDescription,
                   useThinkingMode, generatePrompt, aspectRatio,
                   analysisResult, now, objectUrls, nextOp>>

---------------------------------------------------------------------------
(* Start Over *)

\* {generatedImage && <button onClick={resetTryOn}>} on the try-on tab
ResetTryOnShown == activeTab = "tryon" /\ Truthy(generatedImage)
\* {generatedImage && <button onClick={resetGenerate}>} on the generate tab
ResetGenerateShown == activeTab = "generate" /\ Truthy(generatedImage)

resetTryOn ==
    /\ ResetTryOnShown
    /\ itemImages' = <<>>
    /\ userImage' = <<>>
    /\ sceneDescription' = ""
    /\ generatedImage' = Null
    /\ analysisResult' = ""
    /\ error' = Null
    /\ useThinkingMode' = FALSE
    /\ UNCHANGED <<activeTab, generatePrompt, aspectRatio, editPrompt,
                   isLoading, now, objectUrls, nextOp, inflight>>

resetGenerate ==
    /\ ResetGenerateShown
    /\ generatePrompt' = ""
    /\ aspectRatio' = "1:1"
    /\ generatedImage' = Null
    /\ error' = Null
    /\ UNCHANGED <<activeTab, itemImages, userImage, sceneDescription,
                   useThinkingMode, editPrompt, analysisResult, isLoading,
                   now, objectUrls, nextOp, inflight>>

---------------------------------------------------------------------------
(* The program *)

\* the handler runs waiting on analyzeLookWithThinking
AwaitingAnalysis == {o \in inflight : o.pc = "analysis"}

\* what the user drops on the item upload in the session: the readable file,
\* one per upload
SessionUploads == {<<Dress>>}

\* The session: the three tabs, their inputs, the submit handlers and their
\* continuations, and Start Over.  Items are uploaded one file at a time, no
\* user photo is set and no time passes between events; TryOnNext covers the
\* three.
Next ==
    \/ \E tab \in AppTab : SetActiveTab(tab)
    \/ \E files \in SessionUploads : \E reads \in ClockReads(Len(files)) :
          objectUrls + Len(files) <= MaxUploads /\ handleItemFiles(files, reads)
    \/ \E i \in 1..Len(itemImages) : removeItem(itemImages[i].id)
    \/ \E value \in Scenes : setSceneDescription(value)
    \/ \E checked \in BOOLEAN : setUseThinkingMode(checked)
    \/ \E value \in Prompts : setGeneratePrompt(value)
    \/ \E value \in RatioChoices : setAspectRatio(value)
    \/ \E value \in EditPrompts : setEditPrompt(value)
    \/ handleGenerateLook
    \/ handleGenerateImage
    \/ handleEditImage
    \/ \E o \in inflight : generateLookSend(o)
    \/ \E o \in inflight :
          \E response \in ImageResponses(o.kind, o.id) : generateLookSettles(o, response)
    \/ \E o \in AwaitingAnalysis :
          \E response \in TextResponses(o.request.parts[1].data) : analysisSettles(o, response)
    \/ \E o \in inflight :
          \E response \in ImagenResponses(o.kind, o.id) : generateImageSettles(o, response)
    \/ \E o \in inflight :
          \E response \in ImageResponses(o.kind, o.id) : editImageSettles(o, response)
    \/ resetTryOn
    \/ resetGenerate

Spec == Init /\ [][Next]_vars

\* the object URLs alive: URL.createObjectURL numbers them 1..objectUrls, and
\* a URL stays alive until URL.revokeObjectURL, which no handler calls
LiveObjectUrls == 1..objectUrls

\* an id no upload produces
AbsentId == <<"hat.png", 0>>

\* The try-on tab alone, with the clock running: both files as items and as
\* the user photo, removal by any id, a try-on without analysis, Start Over.
TryOnNext ==
    \/ Tick
    \/ \E files \in FileLists : \E reads \in ClockReads(Len(files)) :
          objectUrls + Len(files) <= MaxIntake /\ handleItemFiles(files, reads)
    \/ \E files \in FileLists :
          objectUrls + 1 <= MaxIntake /\ handleUserFile(files)
    \/ \E id \in {itemImages[i].id : i \in 1..Len(itemImages)} \cup {AbsentId} : removeItem(id)
    \/ \E value \in Scenes : setSceneDescription(value)
    \/ handleGenerateLook
    \/ \E o \in inflight : generateLookReadUser(o)
    \/ \E o \in inflight : generateLookSend(o)
    \/ \E o \in inflight :
          \E response \in ImageResponses(o.kind, o.id) : generateLookSettles(o, response)
    \/ resetTryOn

SpecTryOn == Init /\ [][TryOnNext]_vars

---------------------------------------------------------------------------
(* Properties of the session *)

\* the steps of the three submit handlers up to their first await
Submit == handleGenerateLook \/ handleGenerateImage \/ handleEditImage

\* C1: a submit taken while a request is in flight (isLoading) is a no-op: it
\* issues no upstream call and leaves generatedImage, analysisResult, error
\* and isLoading unchanged.
C1_SubmitWhileLoadingIsNoOp ==
    [][(isLoading /\ Submit) =>
          UNCHANGED <<generatedImage, analysisResult, error, isLoading, inflight>>]_vars

\* the handler runs whose image call is issued and not yet answered
AwaitingImage == {o \in inflight : o.pc = "image"}

\* C2: in every reachable state at most one upstream call sequence is
\* outstanding: never two issued and unanswered image calls that will both
\* write generatedImage.
C2_AtMostOneOutstanding == Cardinality(AwaitingImage) <= 1

\* the step in which handler run o learns that its analysis call failed
AnalysisFails(o) ==
    \E response \in TextResponses(o.request.parts[1].data) :
        ~analyzeLookWithThinking(response).ok /\ analysisSettles(o, response)

\* C3: when the image call of a try-on succeeded and its analysis call
\* fails, the run ends Succeeded: error null, not loading, generatedImage the
\* produced image, analysisResult empty.
C3_AnalysisFailureIsSuccess ==
    [][\A o \in AwaitingAnalysis :
          AnalysisFails(o) =>
              /\ error' = Null
              /\ ~isLoading'
              /\ generatedImage' = ImageOf(o.kind, o.id)
              /\ analysisResult' = ""]_vars

\* C4: no intermediate state of an operation is observable: isLoading is
\* never still true while generatedImage already holds the image of a
\* handler run that has not finished.
C4_NoIntermediateState ==
    ~(isLoading /\ \E o \in inflight : generatedImage = ImageOf(o.kind, o.id))

\* the steps in which handler run o learns that its image call failed
TryOnImageFails(o) ==
    \E response \in ImageResponses(o.kind, o.id) :
        ~generateLook(response).ok /\ generateLookSettles(o, response)
GenerateFails(o) ==
    \E response \in ImagenResponses(o.kind, o.id) :
        ~generateImageFromText(response).ok /\ generateImageSettles(o, response)
EditFails(o) ==
    \E response \in ImageResponses(o.kind, o.id) :
        ~editImage(response).ok /\ editImageSettles(o, response)

\* C5: whenever a try-on or generate run that passed validation ends in its
\* catch block, generatedImage is null.
C5_FailedRunLeavesNoImage ==
    [][\A o \in inflight :
          (\/ TryOnImageFails(o)
           \/ GenerateFails(o)
           \/ (o.pc = "analysis" /\ AnalysisFails(o)))
          => generatedImage' = Null]_vars

\* C6: when an edit fails, generatedImage is the image the edit was
\* submitted with (the one its request carries), the failing step leaves
\* analysisResult and editPrompt as they are, error is set and loading is over.
C6_FailedEditKeepsResult ==
    [][\A o \in inflight :
          EditFails(o) =>
              /\ generatedImage' = o.request.parts[1].data
              /\ UNCHANGED <<analysisResult, editPrompt>>
              /\ error' \in {EditFailedMsg, TransportMsg, UnknownErrorMsg}
              /\ ~isLoading']_vars

Reset == resetTryOn \/ resetGenerate

\* C7: a reset is available in every reachable state and, when taken, leaves
\* the session idle (not loading, no error, no result, no analysis) with
\* every mode's inputs cleared.
C7_ResetAnywhereClearsAll ==
    [][/\ ENABLED Reset
       /\ Reset =>
             /\ ~isLoading' /\ error' = Null
             /\ generatedImage' = Null /\ analysisResult' = ""
             /\ itemImages' = <<>> /\ userImage' = <<>>
             /\ sceneDescription' = "" /\ ~useThinkingMode'
             /\ generatePrompt' = "" /\ aspectRatio' = "1:1"
             /\ editPrompt' = ""]_vars

\* the step in which the image call of try-on run o succeeds
TryOnImageArrives(o) ==
    \E response \in ImageResponses(o.kind, o.id) :
        generateLook(response).ok /\ generateLookSettles(o, response)

\* the upstream calls a try-on run has issued, by where it is
TryOnCallsInOrder ==
    \A o \in inflight :
        o.kind = "tryon" =>
            /\ o.pc \in {"encode", "readUser"} => o.calls = <<>>
            /\ o.pc = "image" => o.calls = <<"generateContent">>
            /\ o.pc = "analysis" =>
                  /\ o.think
                  /\ o.calls = <<"generateContent", "generateContent:analysis">>
                  /\ o.request = AnalyzeRequest(ImageOf(o.kind, o.id), o.scene)

\* C8: within a try-on the analysis call is issued only in the step in which
\* the image call of the same run succeeded, once, and only when the
\* analysis option was set at the click; with the option unset a valid try-on
\* issues one image call and no analysis call, and the step in which its
\* image arrives ends the run with the image set, loading off, no error and
\* no analysis.
C8_AnalysisAfterImageOnlyIfAsked ==
    [][/\ TryOnCallsInOrder'
       /\ handleGenerateLook /\ inflight' # inflight =>
             error' = Null /\ analysisResult' = ""
       /\ \A o \in inflight :
             /\ (o.pc # "analysis" /\ \E n \in inflight' : n.id = o.id /\ n.pc = "analysis")
                   => TryOnImageArrives(o) /\ o.think
             /\ (TryOnImageArrives(o) /\ ~o.think) =>
                   /\ o.calls = <<"generateContent">>
                   /\ \A n \in inflight' : n.id # o.id
                   /\ generatedImage' = ImageOf(o.kind, o.id)
                   /\ ~isLoading'
                   /\ error' = Null
                   /\ analysisResult' = ""]_vars

\* C9: a try-on submit with no item or no scene text sets the validation
\* message, issues no upstream call, does not start loading and leaves
\* generatedImage and analysisResult as they are.
C9_TryOnValidation ==
    [][(handleGenerateLook /\ (Len(itemImages) = 0 \/ sceneDescription = "")) =>
          /\ error' = TryOnRequiredMsg
          /\ ~isLoading'
          /\ UNCHANGED <<inflight, nextOp, generatedImage, analysisResult>>]_vars

\* C9 witness: items are uploaded, the scene is empty, the submit was refused
\* and no handler run was ever started
C9_Witness ==
    /\ error = TryOnRequiredMsg
    /\ itemImages # <<>>
    /\ sceneDescription = ""
    /\ nextOp = 0
    /\ ~isLoading

\* C10: an edit submit with no current image or no edit text sets the
\* validation message, issues no upstream call and leaves the session
\* failed (error set, not loading) with generatedImage as it was.
C10_EditValidation ==
    [][(handleEditImage /\ (~Truthy(generatedImage) \/ editPrompt = "")) =>
          /\ error' = EditRequiredMsg
          /\ ~isLoading'
          /\ UNCHANGED <<inflight, nextOp, generatedImage>>]_vars

\* C10 witness: an image is shown, the edit text is empty and Apply Edit was
\* refused
C10_Witness ==
    /\ error = EditRequiredMsg
    /\ Truthy(generatedImage)
    /\ editPrompt = ""
    /\ inflight = {}
    /\ ~isLoading

\* a Generate Image run whose call returns image bytes
GenerateSucceeds(o, response) ==
    /\ ~response.rejected
    /\ Truthy(response.imageBytes)
    /\ generateImageSettles(o, response)

\* C11: a Generate Image click with a non-empty prompt clears the error and
\* starts exactly one run, whose single call is generateImages carrying the
\* prompt and the aspect ratio the form holds at the click; when that call
\* returns image bytes the run ends with them as generatedImage, loading over
\* and no error.  A click with an empty prompt sets the validation error and
\* starts nothing.
C11_GenerateSubmit ==
    [][ /\ (handleGenerateImage /\ Truthy(generatePrompt)) =>
              /\ error' = Null
              /\ isLoading'
              /\ \E o \in inflight' \ inflight :
                  /\ inflight' = inflight \cup {o}
                  /\ o.kind = "generate"
                  /\ o.calls = <<"generateImages">>
                  /\ o.request.api = "generateImages"
                  /\ o.request.text = <<generatePrompt>>
                  /\ o.request.ratio = aspectRatio
        /\ (handleGenerateImage /\ ~Truthy(generatePrompt)) =>
              /\ error' = GenerateRequiredMsg
              /\ UNCHANGED <<inflight, nextOp, generatedImage, analysisResult, isLoading>>
        /\ \A o \in inflight : \A response \in ImagenResponses(o.kind, o.id) :
              GenerateSucceeds(o, response) =>
                  /\ o.calls = <<"generateImages">>
                  /\ generatedImage' = response.imageBytes
                  /\ inflight' = inflight \ {o}
                  /\ ~isLoading'
                  /\ error' = Null
      ]_vars

\* C12: a non-empty analysisResult is shown only together with the image it
\* was written for: generatedImage is present and the analysis is the one of
\* that image.
C12_AnalysisBelongsToImage ==
    analysisResult # "" =>
        /\ Truthy(generatedImage)
        /\ analysisResult = AnalysisOf(generatedImage)

\* the list without its i-th item
WithoutItem(list, i) ==
    [j \in 1..(Len(list) - 1) |-> IF j < i THEN list[j] ELSE list[j + 1]]

\* C13: removeItem(id) takes exactly one item out of the list, the one with
\* that id, and keeps the others in their order; it changes nothing when no
\* item has the id.  (Every list handleItemFiles builds has to carry pairwise
\* distinct ids for this.)
C13_RemoveExactlyOne ==
    [][ \A id \in {itemImages[i].id : i \in 1..Len(itemImages)} \cup {AbsentId} :
            removeItem(id) =>
                IF \E i \in 1..Len(itemImages) : itemImages[i].id = id
                THEN \E i \in 1..Len(itemImages) :
                        /\ itemImages[i].id = id
                        /\ itemImages' = WithoutItem(itemImages, i)
                ELSE UNCHANGED itemImages
      ]_vars

\* the previews of the items held: the item list and the user photo
HeldPreviews ==
    {itemImages[i].preview : i \in 1..Len(itemImages)}
        \cup {userImage[i].preview : i \in 1..Len(userImage)}

\* C14: the object URLs created and not released are exactly the previews of
\* the items held, whatever was added, set as user photo, removed or reset.
C14_PreviewHandlesReleased == LiveObjectUrls = HeldPreviews

\* a try-on run one of whose files the reader cannot read
HoldsUnreadable(o) ==
    \/ \E i \in 1..Len(o.files) : ReadAsDataURL(o.files[i]) = <<>>
    \/ \E i \in 1..Len(o.user) : ReadAsDataURL(o.user[i]) = <<>>

\* C15: a try-on run holding a file that cannot be read ends at the encoding
\* step with an error, loading over, and without its generateContent call
\* going out.
C15_UnreadableFileIsReadError ==
    [][ \A o \in inflight :
            (HoldsUnreadable(o) /\ generateLookSend(o)) =>
                /\ error' # Null
                /\ ~isLoading'
                /\ inflight' = inflight \ {o}
      ]_vars

\* the call of run o is answered: its continuation runs
CallAnswered(o) ==
    \/ \E response \in ImageResponses(o.kind, o.id) :
          generateLookSettles(o, response) \/ editImageSettles(o, response)
    \/ \E response \in ImagenResponses(o.kind, o.id) : generateImageSettles(o, response)
    \/ /\ o.pc = "analysis"
       /\ \E response \in TextResponses(o.request.parts[1].data) : analysisSettles(o, response)

\* A Start Over was taken while the call of run o was out, and nothing was
\* submitted since: o is the latest run, it is an edit (which needs an image to
\* start and keeps it) or a try-on awaiting its analysis (whose image arrived),
\* yet the slot holds no image and no error, which only a reset leaves behind.
ResetSinceIssued(o) ==
    /\ o.kind = "edit" \/ o.pc = "analysis"
    /\ nextOp = o.id
    /\ generatedImage = Null
    /\ error = Null

\* C16: after a Start Over, the answer to a call issued before it changes
\* nothing of the session: generatedImage, analysisResult and error stay as
\* the reset left them.
C16_LateAnswerAfterReset ==
    [][ \A o \in inflight :
            (ResetSinceIssued(o) /\ CallAnswered(o)) =>
                UNCHANGED <<generatedImage, analysisResult, error>>
      ]_vars

\* C17: isLoading is true exactly while a run started by a submit has not
\* finished.
C17_LoadingIffOutstanding == isLoading <=> inflight # {}

=============================================================================
